---- MODULE Spec2Model ----
(***************************************************************************)
(* The Users screen of react-query-guide: one query (key 'users', GET      *)
(* /users) and one mutation (POST /users, onSuccess: refetch) run against  *)
(* a default QueryClient.  The component code is src/src/Users.js and the  *)
(* client is created in App (src/unnamed/part_000).  The hooks are those   *)
(* of the 'react-query' package (v3 API: queryKey/queryFn object form,     *)
(* isLoading, cacheTime); every option the source leaves out keeps the     *)
(* package default (retry 3 for queries, 0 for mutations, staleTime 0,     *)
(* cacheTime 5 minutes, refetchOnWindowFocus, no cancelRefetch).           *)
(* The JSON server and the network are the environment.                    *)
(***************************************************************************)
EXTENDS Integers, Sequences, FiniteSets, TLC

\* ------------------------------------------------------------- bounds
MaxGets == 5          \* GET /users attempts issued in one behaviour
MaxMutations == 1     \* mutate() calls in one behaviour

\* ------------------------------------------------- program constants
QueryRetry == 3       \* useQuery without a retry option: 3 retries
MutationRetry == 0    \* useMutation without a retry option: none
CacheTime == 5        \* minutes an unobserved query stays cached

\* The names the input can hold: its initial '' and one typed name.
Names == {"", "Charlie"}

\* db.json as the guide sets it up (shortened to its first user).
Fixture == <<"Bilal Riaz">>

NoData == <<"undefined">>
MutIds == 1..MaxMutations

VARIABLES
  enabled,       \* the query's enabled option
  mounted,       \* <Users /> is rendered and its observers are subscribed
  username,      \* useState('')
  cached,        \* the query 'users' is in the QueryClient's cache
  status,        \* "idle" | "loading" | "success" | "error"
  data,          \* last successful response body, or NoData
  error,         \* TRUE when the query state holds an error
  isFetching,    \* a fetch (with its retries) is running
  failureCount,  \* failed attempts of the running fetch
  dataUpdatedAt, \* stamp of the last successful completion (0 = never)
  errorUpdatedAt,\* stamp of the last failed completion (0 = never)
  cancelRetry,   \* the running fetch lost its last observer
  retryWait,     \* the retryer sleeps before the next attempt
  gets,          \* GET /users requests in flight
  getsIssued,    \* GET /users requests issued so far
  awaiting,      \* callers attached to the running fetch's promise
  resolved,      \* the results the last settled fetch handed its callers
  muts,          \* the mutations started so far, by number
  serverUsers,   \* the JSON server's users list (names; id = position)
  elapsed,       \* minutes since the cache's removal timer was armed
  gcArmed,       \* the removal timer is pending
  hadObservers,  \* the cached query has had an observer
  idleFor        \* minutes the cached query has had no observer

vars == <<enabled, mounted, username, cached, status, data, error, isFetching,
          failureCount, dataUpdatedAt, errorUpdatedAt, cancelRetry, retryWait,
          gets, getsIssued, awaiting, resolved, muts, serverUsers, elapsed,
          gcArmed, hadObservers, idleFor>>

queryVars == <<cached, status, data, error, isFetching, failureCount,
               dataUpdatedAt, errorUpdatedAt, cancelRetry, retryWait>>

\* st: the mutation's status; post: where its POST is ("none" | "sent" |
\* "served"); posts: POSTs issued for it; refetch: how the refetch() its
\* onSuccess called ended ("none" | "pending" | "ok" | "failed").
IdleMutation == [st |-> "idle", error |-> FALSE, post |-> "none",
                 variables |-> "", createdId |-> 0, posts |-> 0,
                 failures |-> 0, onSuccessCount |-> 0, refetch |-> "none"]

\* if (isLoading) return <h2>Loading...</h2>
isLoading == status = "loading"

\* The buttons and the input are on screen.
Rendered == mounted /\ ~isLoading

Init ==
  /\ enabled \in BOOLEAN
  /\ mounted = FALSE
  /\ username = ""
  /\ cached = FALSE
  /\ status = "idle"
  /\ data = NoData
  /\ error = FALSE
  /\ isFetching = FALSE
  /\ failureCount = 0
  /\ dataUpdatedAt = 0
  /\ errorUpdatedAt = 0
  /\ cancelRetry = FALSE
  /\ retryWait = FALSE
  /\ gets = {}
  /\ getsIssued = 0
  /\ awaiting = {}
  /\ resolved = {}
  /\ muts = [m \in MutIds |-> IdleMutation]
  /\ serverUsers = Fixture
  /\ elapsed = 0
  /\ gcArmed = FALSE
  /\ hadObservers = FALSE
  /\ idleFor = 0

\* ------------------------------------------------------ the query
timerVars == <<elapsed, gcArmed, hadObservers, idleFor>>
fetchVars == <<status, error, isFetching, failureCount, cancelRetry,
               retryWait, gets, getsIssued, awaiting>>

\* Who called refetch(): a click on Fetch Users (m = 0) or the onSuccess of
\* mutation m.
Caller(kind, m) == <<kind, m>>

\* fetchUsers: one GET /users, not yet seen by the server.
fetchUsers(n) == [id |-> n, served |-> FALSE, body |-> NoData]

\* Mutants of StartsRequest: a refetch that restarts a running fetch once the
\* query has data, and a fetch that never joins the running one.
StartsRequestIfData == ~isFetching \/ dataUpdatedAt > 0
StartsRequestAlways == TRUE

\* A call of the query's fetch starts a request only when no fetch is
\* running; otherwise the caller gets the running fetch's promise.
StartsRequest == ~isFetching

\* Mutant of FetchingStatus: every fetch shows the loading state.
FetchingStatusLoading == "loading"

\* The state a fetch puts the query in while it runs: a query that has data
\* keeps its status (and the data), one without goes to "loading".
FetchingStatus == IF dataUpdatedAt = 0 THEN "loading" ELSE status

\* The query's fetch as useQuery runs it on mount and on window focus
\* (nobody takes the promise), and as refetch() runs it for a caller.
Fetch(callers) ==
  IF StartsRequest
    THEN /\ getsIssued < MaxGets
         /\ status' = FetchingStatus
         /\ error' = IF dataUpdatedAt = 0 THEN FALSE ELSE error
         /\ isFetching' = TRUE
         /\ failureCount' = 0
         /\ cancelRetry' = FALSE
         /\ retryWait' = FALSE
         /\ gets' = gets \cup {fetchUsers(getsIssued + 1)}
         /\ getsIssued' = getsIssued + 1
         /\ awaiting' = IF isFetching THEN awaiting \cup callers ELSE callers
    ELSE /\ cancelRetry' = FALSE
         /\ awaiting' = awaiting \cup callers
         /\ UNCHANGED <<status, error, isFetching, failureCount, retryWait,
                        gets, getsIssued>>

\* What the promise of a settled fetch hands every caller attached to it,
\* and what it does to the mutations whose onSuccess awaits it.
Settle(result, ok) ==
  /\ resolved' = {result : c \in awaiting}
  /\ awaiting' = {}
  /\ muts' = [m \in MutIds |->
                IF Caller("onSuccess", m) \in awaiting
                  THEN [muts[m] EXCEPT !.st = "success",
                                       !.refetch = IF ok THEN "ok" ELSE "failed"]
                  ELSE muts[m]]

\* The server answers a GET with its list as it is now.
ServeGet(g) ==
  /\ g \in gets /\ ~g.served
  /\ gets' = (gets \ {g}) \cup {[g EXCEPT !.served = TRUE, !.body = serverUsers]}
  /\ UNCHANGED <<enabled, mounted, username, cached, status, data, error,
                 isFetching, failureCount, dataUpdatedAt, errorUpdatedAt,
                 cancelRetry, retryWait, getsIssued, awaiting, resolved, muts,
                 serverUsers>>
  /\ UNCHANGED timerVars

\* Mutant of SuccessData: the response body is not stored.
SuccessDataDropped(g) == NoData

\* The data a successful response leaves in the query.
SuccessData(g) == g.body

\* A GET's response arrives: the query takes it.
GetResolve(g) ==
  /\ g \in gets /\ g.served
  /\ gets' = gets \ {g}
  /\ data' = SuccessData(g)
  /\ dataUpdatedAt' = g.id
  /\ status' = "success"
  /\ error' = FALSE
  /\ isFetching' = FALSE
  /\ failureCount' = 0
  /\ retryWait' = FALSE
  /\ Settle(g.body, TRUE)
  /\ UNCHANGED <<enabled, mounted, username, cached, errorUpdatedAt,
                 cancelRetry, getsIssued, serverUsers>>
  /\ UNCHANGED timerVars

\* Mutant of ErrorData: a failure clears the data.
ErrorDataCleared == NoData

\* The data a failed fetch leaves in the query.
ErrorData == data

\* A fetch ends in failure: the error is stored in the query's state.
FetchError ==
  /\ status' = "error"
  /\ error' = TRUE
  /\ data' = ErrorData
  /\ errorUpdatedAt' = getsIssued
  /\ isFetching' = FALSE
  /\ failureCount' = failureCount + 1
  /\ retryWait' = FALSE
  /\ Settle(<<"error">>, FALSE)

\* Mutant of ShouldRetry: no limit on the retries.
ShouldRetryForever == ~cancelRetry

\* Whether a failed attempt is tried again.
ShouldRetry == ~cancelRetry /\ failureCount < QueryRetry

\* A GET fails (no connection, a non-2xx answer, a body that does not parse).
GetReject(g) ==
  /\ g \in gets
  /\ gets' = gets \ {g}
  /\ IF ShouldRetry
       THEN /\ failureCount' = failureCount + 1
            /\ retryWait' = TRUE
            /\ UNCHANGED <<status, error, data, errorUpdatedAt, isFetching,
                           awaiting, resolved, muts>>
       ELSE FetchError
  /\ UNCHANGED <<enabled, mounted, username, cached, dataUpdatedAt,
                 cancelRetry, getsIssued, serverUsers>>
  /\ UNCHANGED timerVars

\* The retry delay is over: the fetch issues its next attempt, unless it
\* lost its observers meanwhile, and then it ends in failure.
RetryFire ==
  /\ retryWait
  /\ IF cancelRetry
       THEN /\ FetchError
            /\ UNCHANGED <<gets, getsIssued>>
       ELSE /\ getsIssued < MaxGets
            /\ retryWait' = FALSE
            /\ gets' = gets \cup {fetchUsers(getsIssued + 1)}
            /\ getsIssued' = getsIssued + 1
            /\ UNCHANGED <<status, error, data, errorUpdatedAt, isFetching,
                           failureCount, awaiting, resolved, muts>>
  /\ UNCHANGED <<enabled, mounted, username, cached, dataUpdatedAt,
                 cancelRetry, serverUsers>>
  /\ UNCHANGED timerVars

\* --------------------------------------------------- the component
\* Mutant of FetchesOnMount: enabled is ignored.
FetchesOnMountAlways == TRUE

\* useQuery fetches when it mounts, unless enabled is false.
FetchesOnMount == enabled

\* <Users /> is rendered: useQuery subscribes to the query 'users' (creating
\* it when the cache has none) and fetches unless enabled is false.
Mount ==
  /\ ~mounted
  /\ mounted' = TRUE
  /\ username' = ""
  /\ cached' = TRUE
  /\ hadObservers' = TRUE
  /\ gcArmed' = FALSE
  /\ elapsed' = 0
  /\ idleFor' = 0
  /\ IF FetchesOnMount THEN Fetch({}) ELSE UNCHANGED fetchVars
  /\ UNCHANGED <<enabled, data, dataUpdatedAt, errorUpdatedAt, resolved, muts,
                 serverUsers>>

\* <button onClick={refetch}>Fetch Users</button>
RefetchClick ==
  /\ Rendered
  /\ Fetch({Caller("click", 0)})
  /\ UNCHANGED <<enabled, mounted, username, cached, data, dataUpdatedAt,
                 errorUpdatedAt, resolved, muts, serverUsers>>
  /\ UNCHANGED timerVars

\* The window gets the focus back: an enabled, observed query refetches
\* (staleTime 0 makes it stale at once).
WindowFocus ==
  /\ mounted /\ enabled
  /\ Fetch({})
  /\ UNCHANGED <<enabled, mounted, username, cached, data, dataUpdatedAt,
                 errorUpdatedAt, resolved, muts, serverUsers>>
  /\ UNCHANGED timerVars

\* onChange={(e) => setUsername(e?.target?.value)}
SetUsername(n) ==
  /\ Rendered
  /\ n # username
  /\ username' = n
  /\ UNCHANGED <<enabled, mounted, resolved, muts, serverUsers, gets,
                 getsIssued, awaiting>>
  /\ UNCHANGED queryVars
  /\ UNCHANGED timerVars

\* The mutation the next mutate() starts.
NextMutation(m) == muts[m].st = "idle" /\ \A k \in MutIds : k < m => muts[k].st # "idle"

\* addNewUser: one POST /users with the name.
addNewUser(mu, userName) ==
  [mu EXCEPT !.st = "loading", !.post = "sent", !.variables = userName,
             !.posts = @ + 1]

\* <button onClick={() => mutate(username)}>Add User</button>
Mutate(m) ==
  /\ Rendered
  /\ NextMutation(m)
  /\ muts' = [muts EXCEPT ![m] = addNewUser(@, username)]
  /\ UNCHANGED <<enabled, mounted, username, resolved, serverUsers, gets,
                 getsIssued, awaiting>>
  /\ UNCHANGED queryVars
  /\ UNCHANGED timerVars

\* The server takes a POST: it appends the user under the next id.
ServePost(m) ==
  /\ muts[m].post = "sent"
  /\ serverUsers' = Append(serverUsers, muts[m].variables)
  /\ muts' = [muts EXCEPT ![m] = [@ EXCEPT !.post = "served",
                                          !.createdId = Len(serverUsers) + 1]]
  /\ UNCHANGED <<enabled, mounted, username, resolved, gets, getsIssued,
                 awaiting>>
  /\ UNCHANGED queryVars
  /\ UNCHANGED timerVars

\* Mutant of AfterOnSuccess: onSuccess is called twice.
AfterOnSuccessTwice(mu) ==
  [mu EXCEPT !.post = "none", !.onSuccessCount = @ + 2, !.refetch = "pending"]

\* The mutation after its onSuccess (= the query's refetch) was called.
AfterOnSuccess(mu) ==
  [mu EXCEPT !.post = "none", !.onSuccessCount = @ + 1, !.refetch = "pending"]

\* A POST's response arrives: onSuccess runs, that is the query's refetch
\* (on a query the cache dropped meanwhile, refetch creates it again); the
\* mutation stays "loading" until the promise refetch returned settles.
PostResolve(m) ==
  /\ muts[m].post = "served"
  /\ muts' = [muts EXCEPT ![m] = AfterOnSuccess(@)]
  /\ Fetch({Caller("onSuccess", m)})
  /\ cached' = TRUE
  /\ IF cached
       THEN UNCHANGED timerVars
       ELSE /\ gcArmed' = TRUE
            /\ elapsed' = 0
            /\ idleFor' = 0
            /\ hadObservers' = FALSE
  /\ UNCHANGED <<enabled, mounted, username, data, dataUpdatedAt,
                 errorUpdatedAt, resolved, serverUsers>>

\* Whether a failed POST is sent again.
MutationShouldRetry(mu) == mu.failures < MutationRetry

\* A POST fails (the server or the network refuses it; nothing is written).
PostReject(m) ==
  /\ muts[m].post = "sent"
  /\ muts' = [muts EXCEPT ![m] =
                IF MutationShouldRetry(@)
                  THEN [@ EXCEPT !.failures = @ + 1, !.posts = @ + 1]
                  ELSE [@ EXCEPT !.failures = @ + 1, !.post = "none",
                                 !.st = "error", !.error = TRUE]]
  /\ UNCHANGED <<enabled, mounted, username, resolved, serverUsers, gets,
                 getsIssued, awaiting>>
  /\ UNCHANGED queryVars
  /\ UNCHANGED timerVars

\* ------------------------------------------- unmounting and the cache
\* <Users /> goes away: the query loses its observer, a running fetch goes
\* on without further retries, and the removal timer is armed.
Unmount ==
  /\ mounted
  /\ mounted' = FALSE
  /\ cancelRetry' = isFetching
  /\ gcArmed' = TRUE
  /\ elapsed' = 0
  /\ idleFor' = 0
  /\ UNCHANGED <<enabled, username, cached, status, data, error, isFetching,
                 failureCount, dataUpdatedAt, errorUpdatedAt, retryWait, gets,
                 getsIssued, awaiting, resolved, muts, serverUsers,
                 hadObservers>>

\* A minute passes while the query is unobserved (a due timer fires first).
Tick ==
  /\ ~mounted /\ cached
  /\ gcArmed => elapsed < CacheTime
  /\ elapsed' = IF gcArmed THEN elapsed + 1 ELSE elapsed
  /\ idleFor' = IF idleFor > CacheTime THEN idleFor ELSE idleFor + 1
  /\ UNCHANGED <<enabled, mounted, username, resolved, muts, serverUsers,
                 gets, getsIssued, awaiting, gcArmed, hadObservers>>
  /\ UNCHANGED queryVars

\* Mutant of GcDue: the timer fires before its time.
GcDueEarly == gcArmed

\* The removal timer is due.
GcDue == gcArmed /\ elapsed = CacheTime

\* The removal timer fires: an unobserved query is dropped from the cache,
\* unless it is fetching; then the timer starts again (if the query ever had
\* an observer).
GcFire ==
  /\ GcDue
  /\ IF isFetching
       THEN /\ gcArmed' = hadObservers
            /\ elapsed' = 0
            /\ UNCHANGED <<hadObservers, idleFor>>
            /\ UNCHANGED queryVars
       ELSE /\ cached' = FALSE
            /\ status' = "idle"
            /\ data' = NoData
            /\ error' = FALSE
            /\ failureCount' = 0
            /\ dataUpdatedAt' = 0
            /\ errorUpdatedAt' = 0
            /\ cancelRetry' = FALSE
            /\ gcArmed' = FALSE
            /\ elapsed' = 0
            /\ idleFor' = 0
            /\ hadObservers' = FALSE
            /\ UNCHANGED <<isFetching, retryWait>>
  /\ UNCHANGED <<enabled, mounted, username, resolved, muts, serverUsers,
                 gets, getsIssued, awaiting>>

\* ------------------------------------------------- specifications
Network ==
  \/ \E g \in gets : ServeGet(g)
  \/ \E g \in gets : GetResolve(g)
  \/ \E g \in gets : GetReject(g)
  \/ RetryFire
  \/ \E m \in MutIds : ServePost(m)
  \/ \E m \in MutIds : PostResolve(m)
  \/ \E m \in MutIds : PostReject(m)

\* The application as App renders it: <Users /> stays mounted.
Next ==
  \/ Mount
  \/ RefetchClick
  \/ WindowFocus
  \/ \E n \in Names : SetUsername(n)
  \/ \E m \in MutIds : Mutate(m)
  \/ Network

Spec == Init /\ [][Next]_vars

\* The same with the component tree unmounted and mounted again while the
\* QueryClient (a module-level constant) lives on.  What is typed into the
\* input has no part in the cache's lifetime: the input keeps its ''.
NextLifecycle ==
  \/ Mount
  \/ RefetchClick
  \/ WindowFocus
  \/ \E m \in MutIds : Mutate(m)
  \/ Network
  \/ Unmount
  \/ Tick
  \/ GcFire

SpecLifecycle == Init /\ [][NextLifecycle]_vars

\* ------------------------------------------------------- the claims
\* A step that ends a fetch, in success or in failure.
Completes == isFetching /\ ~isFetching'

\* The user mutation m created is in the list d.
UserIn(m, d) ==
  /\ d # NoData
  /\ muts[m].createdId \in 1..Len(d)
  /\ d[muts[m].createdId] = muts[m].variables

C2_MutationTriggersRefetch ==
  \A m \in MutIds : (enabled /\ muts[m].refetch = "ok") => UserIn(m, data)

C4_StaleWhileRevalidate ==
  /\ [](dataUpdatedAt > 0 => data # NoData /\ ~isLoading)
  /\ [][(dataUpdatedAt > 0 /\ cached') =>
          \/ data' = data
          \/ /\ Completes
             /\ status' = "success"
             /\ \E g \in gets : g.served /\ data' = g.body]_vars

\* A refetch is in flight whose response differs from the data shown.
C4_Witness ==
  /\ dataUpdatedAt > 0
  /\ isFetching
  /\ \E g \in gets : g.served /\ g.body # data

\* C5: when a fetch of a query that has data ends in failure, the query is
\* in status error with the error set and the data unchanged, and the
\* callers of refetch() get a settled promise, not an exception.
C5_ErrorKeepsData ==
  [][(dataUpdatedAt > 0 /\ Completes /\ status' # "success") =>
       /\ status' = "error"
       /\ error'
       /\ data' = data
       /\ data' # NoData
       /\ awaiting' = {}]_vars

\* A refetch failed after an earlier fetch had succeeded.
C5_Witness ==
  /\ status = "error"
  /\ error
  /\ dataUpdatedAt > 0
  /\ errorUpdatedAt > dataUpdatedAt

\* C6: with enabled false, mounting issues no GET and leaves the query idle;
\* it stays idle while no GET was issued, a GET is only ever started with a
\* caller of refetch() attached, and a refetch() on the resting query does
\* start one.
C6_EnabledFalse ==
  /\ [](~enabled /\ getsIssued = 0 => status = "idle" /\ ~isFetching)
  /\ [][(~enabled /\ ~mounted /\ mounted') =>
          getsIssued' = getsIssued /\ status' = status]_vars
  /\ [][(~enabled /\ ~isFetching /\ getsIssued' > getsIssued) =>
          awaiting' # {}]_vars
  /\ [][(~enabled /\ ~isFetching /\ awaiting' # {}) =>
          getsIssued' = getsIssued + 1 /\ isFetching']_vars

\* The disabled query is mounted and rests: buttons shown, nothing fetched.
C6_Witness ==
  /\ ~enabled
  /\ Rendered
  /\ status = "idle"
  /\ getsIssued = 0

C9_NoAutomaticRetry ==
  [][getsIssued' > getsIssued => ~retryWait]_vars

\* C9 as amended: a fetch re-issues a failed GET by itself at most
\* QueryRetry times (4 GETs at most), and only while it runs; a query that
\* is not fetching has no GET in flight and no retry pending.  A mutation
\* sends one POST and never sends it again.
C9_BoundedRetry ==
  /\ [](isFetching => failureCount <= QueryRetry)
  /\ [](failureCount <= QueryRetry + 1)
  /\ [](~isFetching => gets = {} /\ ~retryWait)
  /\ [][(retryWait /\ getsIssued' > getsIssued) =>
          isFetching /\ failureCount \in 1..QueryRetry]_vars
  /\ [](\A m \in MutIds :
          /\ muts[m].posts <= 1
          /\ muts[m].st # "idle" => muts[m].posts = 1
          /\ muts[m].st = "error" => muts[m].failures = 1)

\* The fourth GET of one fetch is in flight.
C9_Witness ==
  /\ failureCount = QueryRetry
  /\ Cardinality(gets) = 1

\* C10: a query in status success has data, one in status error has its
\* error set, and the stamps of the last completion change only in a step
\* that ends a fetch.
C10_EntryInvariant ==
  /\ [](status = "success" => data # NoData)
  /\ [](status = "error" => error)
  /\ [][(cached' /\ (dataUpdatedAt' # dataUpdatedAt
                       \/ errorUpdatedAt' # errorUpdatedAt)) => Completes]_vars

\* A refetch is running on a query whose stamp is still that of the fetch
\* before it.
C10_Witness ==
  /\ isFetching
  /\ status = "success"
  /\ dataUpdatedAt > 0
  /\ dataUpdatedAt < getsIssued

====
